---- MODULE Spec2Model ----
(***************************************************************************)
(* Model of LiquidSchemaPlugin (src/plugin/index.js): the buildSchema      *)
(* batch, its concurrent per-file pipelines, the schema resolver           *)
(* (replaceSchemaTags), the duplicate expander (getDuplicateRules,         *)
(* cleanDupicateTag, duplicatedFiles) and the require.cache bookkeeping.   *)
(*                                                                         *)
(* File contents are sequences of tokens.  A token stands for a piece of   *)
(* text the regular expressions of the plugin tell apart: a schema tag     *)
(* with its quoted path, an endschema tag, a duplicate / endduplicate tag, *)
(* one newline character, the placeholder -{{title_section}}-, a JSON      *)
(* literal, plain text.                                                    *)
(***************************************************************************)
EXTENDS Integers, Sequences, FiniteSets, TLC

\* Number of buildSchema batches (compilations) a behaviour runs.
MaxBatches == 2

-----------------------------------------------------------------------------
(* Tokens and small sequence helpers                                       *)

Tok(k) == [t |-> k, a |-> <<>>]
Txt == Tok("txt")
NL == Tok("nl")
PH == Tok("placeholder")
DupOpen == Tok("duplicate")
DupClose == Tok("endduplicate")
EndSchema == Tok("endschema")
SchemaTag(lit) == [t |-> "schema", a |-> <<lit>>]
JsonArr(names) == [t |-> "jsonarray", a |-> names]
JsonStr == Tok("jsonstring")
JsonNull == Tok("jsonnull")
NameText(n) == [t |-> "name", a |-> <<n>>]

Max(S) == CHOOSE x \in S : \A y \in S : y <= x
Min(S) == CHOOSE x \in S : \A y \in S : x <= y

Positions(s, k) == {i \in 1..Len(s) : s[i].t = k}
Has(s, k) == Positions(s, k) # {}

-----------------------------------------------------------------------------
(* Paths                                                                   *)

FromLiquid == "src/liquid"
FromSchema == "src/schema"
\* path.relative(compilationOutput, this.options.to)
RelativeOutputPath == "../sections"

LiquidExt == ".liquid"

\* path.join(relativeOutputPath, fileName), fileName split in base and extension
getOutputKeyByFileName(base, ext) ==
  [dir |-> RelativeOutputPath, base |-> base, ext |-> ext]

\* getOutputKey: path.relative(from.liquid, fileLocation) is the entry's name
getOutputKey(e) == getOutputKeyByFileName(e.base, e.ext)

\* path.resolve(from.schema, literal)
PathResolve(lit) == [dir |-> FromSchema, name |-> lit]
PathDirname(p) == p.dir

-----------------------------------------------------------------------------
(* The schema modules on disk, as require() sees them                      *)

PartModule == [dir |-> "src/schema/parts", name |-> "part.js"]

ModuleLiterals == {"obj.json", "num.js", "arr.json", "nul.json", "fn.js",
                   "broken.js", "missing.json"}

\* require.resolve succeeds
ModuleExists(p) == p.name # "missing.json"
\* evaluating the module throws
ModuleThrows(p) == p.name = "broken.js"
\* modules the module itself requires while it is evaluated
ModuleChildren(p) == IF p.name = "fn.js" THEN {PartModule} ELSE {}

\* module.exports, as a JavaScript value
ModuleExports(p) ==
  CASE p.name = "obj.json" -> [js |-> "mapping", of |-> <<"obj.json">>]
    [] p.name = "num.js" -> [js |-> "number", of |-> <<"num.js">>]
    [] p.name = "arr.json" -> [js |-> "array", of |-> <<"arr.json">>]
    [] p.name = "nul.json" -> [js |-> "null", of |-> <<"nul.json">>]
    [] p.name = "fn.js" -> [js |-> "function", of |-> <<"fn.js">>]
    [] OTHER -> [js |-> "undefined", of |-> <<>>]

\* the typeof operator
TypeOf(v) ==
  CASE v.js \in {"mapping", "array", "null"} -> "object"
    [] v.js = "function" -> "function"
    [] v.js = "number" -> "number"
    [] v.js = "string" -> "string"
    [] OTHER -> "undefined"

\* the generator exported by fn.js: builds a mapping from its two arguments
CallGenerator(v, fileName, contents) ==
  [js |-> "mapping", of |-> v.of \o <<fileName, contents.js>>]

-----------------------------------------------------------------------------
(* JavaScript values, JSON.parse, truthiness                               *)

JsonObj == Tok("jsonobject")
JsonKinds == {"jsonarray", "jsonstring", "jsonnull", "jsonobject"}

JsUndefined == [js |-> "undefined", of |-> <<>>]
JsNull == [js |-> "null", of |-> <<>>]
JsEmptyString == [js |-> "string", of |-> <<>>]

IsNotNewline(tok) == tok.t # "nl"

\* JSON.parse of a piece of text: whitespace around one JSON literal is allowed,
\* anything else is a SyntaxError
JsonParse(text) ==
  LET core == SelectSeq(text, IsNotNewline) IN
  IF Len(core) = 1 /\ core[1].t \in JsonKinds
  THEN [thrown |-> FALSE,
        value |-> CASE core[1].t = "jsonarray" -> [js |-> "array", of |-> core[1].a]
                    [] core[1].t = "jsonstring" -> [js |-> "string", of |-> <<"x">>]
                    [] core[1].t = "jsonobject" -> [js |-> "mapping", of |-> <<>>]
                    [] OTHER -> JsNull]
  ELSE [thrown |-> TRUE, value |-> JsUndefined]

\* ToBoolean
Truthy(v) ==
  CASE v.js \in {"mapping", "array", "function", "number"} -> TRUE
    [] v.js = "string" -> v.of # <<>>
    [] OTHER -> FALSE

-----------------------------------------------------------------------------
(* String.prototype.replace with a string pattern                          *)

\* replaces the first occurrence only
ReplaceFirst(s, k, r) ==
  IF Has(s, k)
  THEN LET i == Min(Positions(s, k)) IN
       SubSeq(s, 1, i - 1) \o <<r>> \o SubSeq(s, i + 1, Len(s))
  ELSE s

-----------------------------------------------------------------------------
(* DuplicateExpander: getDuplicateRules, cleanDupicateTag, duplicatedFiles *)

\* /{%-?\s*duplicate\s*-?%}(([\s\S]*)){%-?\s*endduplicate\s*-?%}/ : leftmost
\* opening tag, greedy body up to the last closing tag after it
DuplicateMatch(s) ==
  LET opens == Positions(s, "duplicate")
      i == IF opens = {} THEN 0 ELSE Min(opens)
      closes == {j \in Positions(s, "endduplicate") : j > i}
  IN IF i = 0 \/ closes = {}
     THEN [found |-> FALSE, from |-> 0, to |-> 0, body |-> <<>>]
     ELSE [found |-> TRUE, from |-> i, to |-> Max(closes),
           body |-> SubSeq(s, i + 1, Max(closes) - 1)]

getDuplicateRules(fileContents) ==
  LET match == DuplicateMatch(fileContents) IN
  IF match.found /\ match.body # <<>>
  THEN JsonParse(match.body)
  ELSE [thrown |-> FALSE, value |-> JsEmptyString]

\* the same pattern followed by \n\n : the closing tag must be followed by two
\* newline characters, otherwise nothing matches and nothing is replaced
cleanDupicateTag(s) ==
  LET opens == Positions(s, "duplicate")
      i == IF opens = {} THEN 0 ELSE Min(opens)
      closes == {j \in Positions(s, "endduplicate") :
                   /\ j > i
                   /\ j + 2 <= Len(s)
                   /\ s[j + 1].t = "nl"
                   /\ s[j + 2].t = "nl"}
  IN IF i = 0 \/ closes = {}
     THEN s
     ELSE SubSeq(s, 1, i - 1) \o SubSeq(s, Max(closes) + 3, Len(s))

\* one iteration of the forEach at lines 208-220
VariantKey(newFileName) == getOutputKeyByFileName(newFileName, LiquidExt)
VariantContent(template, newFileName) ==
  ReplaceFirst(template, "placeholder", NameText(newFileName))

RECURSIVE WriteVariants(_, _, _)
WriteVariants(assetMap, names, template) ==
  IF names = <<>> THEN assetMap
  ELSE WriteVariants(
         (VariantKey(Head(names)) :> VariantContent(template, Head(names))) @@ assetMap,
         Tail(names), template)

\* duplicatedFiles as it would be if it filled a copy of assetList and returned the
\* copy (return { ...assetList, ...variants }) instead of writing into assetList
duplicatedFilesCopy(hp, ref, duplicateRules, fileContent) ==
  IF ~Truthy(duplicateRules)
  THEN [thrown |-> FALSE, heap |-> hp, ret |-> ref, written |-> <<>>]
  ELSE IF duplicateRules.js # "array"
  THEN [thrown |-> TRUE, heap |-> hp, ret |-> ref, written |-> <<>>]
  ELSE [thrown |-> FALSE,
        heap |-> Append(hp, WriteVariants(hp[ref], duplicateRules.of, fileContent)),
        ret |-> Len(hp) + 1,
        written |-> [i \in 1..Len(duplicateRules.of) |->
                       [key |-> VariantKey(duplicateRules.of[i]),
                        content |-> VariantContent(fileContent, duplicateRules.of[i])]]]

\* duplicatedFiles(fileLocation, duplicateRules, fileContent, assetList): works on
\* the object assetList refers to and returns the same reference.  hp is the heap
\* of asset-map objects, ref the reference passed in.
duplicatedFiles(hp, ref, duplicateRules, fileContent) ==
  IF ~Truthy(duplicateRules)
  THEN [thrown |-> FALSE, heap |-> hp, ret |-> ref, written |-> <<>>]
  ELSE IF duplicateRules.js # "array"
  THEN \* duplicateRules.forEach is not a function
       [thrown |-> TRUE, heap |-> hp, ret |-> ref, written |-> <<>>]
  ELSE [thrown |-> FALSE,
        heap |-> [hp EXCEPT ![ref] = WriteVariants(@, duplicateRules.of, fileContent)],
        ret |-> ref,
        written |-> [i \in 1..Len(duplicateRules.of) |->
                       [key |-> VariantKey(duplicateRules.of[i]),
                        content |-> VariantContent(fileContent, duplicateRules.of[i])]]]

-----------------------------------------------------------------------------
(* SchemaResolver: replaceSchemaTags after fs.readFile has delivered       *)

\* /{%-?\s*schema\s*('.*'|".*")\s*-?%}(([\s\S]*){%-?\s*endschema\s*-?%})?/
SchemaMatch(s) ==
  LET opens == Positions(s, "schema")
      i == IF opens = {} THEN 0 ELSE Min(opens)
      closes == {j \in Positions(s, "endschema") : j > i}
  IN IF i = 0
     THEN [found |-> FALSE, from |-> 0, to |-> 0, lit |-> "", hasBody |-> FALSE,
           body |-> <<>>]
     ELSE IF closes = {}
     THEN [found |-> TRUE, from |-> i, to |-> i, lit |-> s[i].a[1],
           hasBody |-> FALSE, body |-> <<>>]
     ELSE [found |-> TRUE, from |-> i, to |-> Max(closes), lit |-> s[i].a[1],
           hasBody |-> TRUE, body |-> SubSeq(s, i + 1, Max(closes) - 1)]

\* the test of line 133 as it would be if it passed for every content, so that
\* the early return of line 137 is never taken
TestAlwaysPasses(s) == TRUE

fileContainsReplaceableSchemaRegex(s) == SchemaMatch(s).found

\* lines 169-173: JSON.parse(contents), null when it throws
InlineContents(match) ==
  IF match.hasBody /\ ~JsonParse(match.body).thrown
  THEN JsonParse(match.body).value
  ELSE JsNull

\* asString(['{% schema %}', JSON.stringify(schema, null, 4), '{% endschema %}'])
RenderedSchema(schema) == [t |-> "rendered", a |-> <<schema.js>> \o schema.of]

\* lines 175-178
EffectiveSchema(importedSchema, fileName, contents) ==
  IF TypeOf(importedSchema) = "function"
  THEN CallGenerator(importedSchema, fileName, contents)
  ELSE importedSchema

\* line 180
SchemaTypeRejected(schema) == TypeOf(schema) # "object"

\* The result: thrown, the RawSource value, the path added to
\* compilation.fileDependencies (line 154), require.cache afterwards, the module
\* asked of require() and whether require.cache answered.
replaceSchemaTags(fileName, fileContents, cache) ==
  LET match == SchemaMatch(fileContents)
      p == PathResolve(match.lit)
      none == [thrown |-> FALSE, value |-> fileContents, deps |-> {}, cache |-> cache,
               asked |-> {}, hit |-> FALSE]
      schema == EffectiveSchema(ModuleExports(p), fileName, InlineContents(match))
  IN IF ~fileContainsReplaceableSchemaRegex(fileContents) THEN none
     ELSE IF ~ModuleExists(p)
     THEN \* require.resolve throws at line 154
          [none EXCEPT !.thrown = TRUE]
     ELSE IF p \notin cache /\ ModuleThrows(p)
     THEN [none EXCEPT !.thrown = TRUE, !.deps = {p}, !.asked = {p}]
     ELSE LET after == cache \cup {p} \cup ModuleChildren(p) IN
          IF SchemaTypeRejected(schema)
          THEN [thrown |-> TRUE, value |-> fileContents, deps |-> {p},
                cache |-> IF p \in cache THEN cache ELSE after,
                asked |-> {p}, hit |-> p \in cache]
          ELSE [thrown |-> FALSE,
                value |-> SubSeq(fileContents, 1, match.from - 1)
                            \o <<RenderedSchema(schema)>>
                            \o SubSeq(fileContents, match.to + 1, Len(fileContents)),
                deps |-> {p},
                cache |-> IF p \in cache THEN cache ELSE after,
                asked |-> {p}, hit |-> p \in cache]

-----------------------------------------------------------------------------
(* The source directory and the files a batch can meet                     *)

EntryA == [base |-> "a", ext |-> LiquidExt]
EntryB == [base |-> "b", ext |-> LiquidExt]
EntryNotes == [base |-> "notes", ext |-> ".txt"]
\* fs.readdir(this.options.from.liquid)
Entries == {EntryA, EntryB, EntryNotes}

SchemaOnly(lit) == <<SchemaTag(lit), NL, Txt>>
DupBlock(body) == <<DupOpen>> \o body \o <<DupClose>>

Contents ==
  {SchemaOnly(lit) : lit \in ModuleLiterals}
  \cup
  { <<Txt>>,
    <<Txt, NL, PH>>,
    <<SchemaTag("fn.js"), JsonObj, EndSchema, NL, Txt>>,
    <<SchemaTag("fn.js"), Txt, EndSchema>>,
    DupBlock(<<JsonArr(<<"a", "r">>)>>) \o <<NL, NL, PH, Txt, PH>>,
    DupBlock(<<JsonArr(<<"r">>)>>) \o <<NL, PH>>,
    <<Txt>> \o DupBlock(<<JsonArr(<<"b">>)>>),
    DupBlock(<<>>) \o <<NL, NL, Txt>>,
    DupBlock(<<JsonArr(<<>>)>>) \o <<NL, NL, Txt>>,
    DupBlock(<<Txt>>) \o <<NL, NL, Txt>>,
    DupBlock(<<JsonStr>>) \o <<NL, NL, Txt>>,
    DupBlock(<<JsonNull>>) \o <<NL, NL, Txt>>,
    DupBlock(<<JsonArr(<<"r", "r">>)>>) \o <<NL, NL, PH>>,
    DupBlock(<<JsonArr(<<"r">>)>>) \o <<NL, NL, Txt>>,
    <<SchemaTag("obj.json"), NL>> \o DupBlock(<<NL, JsonArr(<<"a", "b">>), NL>>)
       \o <<NL, NL, PH>>,
    <<SchemaTag("num.js")>> \o DupBlock(<<JsonArr(<<"r">>)>>) \o <<NL, NL>> }

\* what fs.stat and fs.readFile answer for an entry
Dirents ==
  [kind : {"file"}, content : Contents]
  \cup [kind : {"dir", "enoent", "unreadable"}, content : {<<>>}]

AllModules == {PathResolve(lit) : lit \in ModuleLiterals} \cup {PartModule}

\* an asset the compilation already holds when the plugin runs
MainKey == [dir |-> ".", base |-> "main", ext |-> ".js"]

-----------------------------------------------------------------------------
(* State                                                                   *)

VARIABLES
  dirent,               \* the source directory: entry -> what stat/readFile give
  batch,                \* number of buildSchema calls so far
  phase,                \* "idle", "running", "resolved" or "rejected"
  pc,                   \* per entry: where its async callback stands
  outputFile,           \* per entry: local outputFile (its _value)
  duplicateRules,       \* per entry: local duplicateRules
  pending,              \* per entry: an exception is on its way to the catch
  assetList,            \* per entry: the reference duplicatedFiles resolved to
  heap,                 \* asset-map objects of the current compilation
  assets,               \* compilation.assets: a reference into heap
  errors,               \* compilation.errors
  fileDependencies,     \* compilation.fileDependencies
  contextDependencies,  \* compilation.contextDependencies
  requireCache,         \* Object.keys(require.cache), process wide
  preTransformCache,    \* the snapshot of line 44
  emitted,              \* per entry: the (key, content) writes of its pipeline
  asked,                \* per entry: the modules its pipeline asked require() for
  loadedIn,             \* per module: the batch that read the cached instance from disk
  staleServed           \* modules require() answered with an earlier batch's instance

vars == <<dirent, batch, phase, pc, outputFile, duplicateRules, pending, assetList,
          heap, assets, errors, fileDependencies, contextDependencies, requireCache,
          preTransformCache, emitted, asked, loadedIn, staleServed>>

locals == <<outputFile, duplicateRules, pending, assetList>>
deps == <<fileDependencies, contextDependencies>>
modules == <<requireCache, loadedIn, staleServed>>

Settled == {"done", "skipped", "rejected"}
AllSettled == \A e \in Entries : pc[e] \in Settled

Init ==
  /\ dirent \in [Entries -> Dirents]
  /\ dirent[EntryNotes] = [kind |-> "file", content |-> <<Txt>>]
  /\ batch = 0
  /\ phase = "idle"
  /\ pc = [e \in Entries |-> "done"]
  /\ outputFile = [e \in Entries |-> <<>>]
  /\ duplicateRules = [e \in Entries |-> JsUndefined]
  /\ pending = [e \in Entries |-> FALSE]
  /\ assetList = [e \in Entries |-> 1]
  /\ heap = <<(MainKey :> <<Txt>>)>>
  /\ assets = 1
  /\ errors = <<>>
  /\ fileDependencies = {}
  /\ contextDependencies = {}
  /\ requireCache \in SUBSET {PathResolve("obj.json")}
  /\ preTransformCache = {}
  /\ emitted = [e \in Entries |-> {}]
  /\ asked = [e \in Entries |-> {}]
  /\ loadedIn = [m \in AllModules |-> 0]
  /\ staleServed = {}

-----------------------------------------------------------------------------
(* buildSchema                                                             *)

\* lines 37-47: a new compilation from the host, the two context dependencies,
\* the snapshot of require.cache, and every callback started up to its fs.stat
buildSchema ==
  /\ batch < MaxBatches
  /\ phase = "idle" \/ (phase \in {"resolved", "rejected"} /\ AllSettled)
  /\ batch' = batch + 1
  /\ phase' = "running"
  /\ heap' = <<(MainKey :> <<Txt>>)>>
  /\ assets' = 1
  /\ errors' = <<>>
  /\ fileDependencies' = {}
  /\ contextDependencies' = {FromLiquid, FromSchema}
  /\ preTransformCache' = requireCache
  /\ pc' = [e \in Entries |-> "stat"]
  /\ outputFile' = [e \in Entries |-> <<>>]
  /\ duplicateRules' = [e \in Entries |-> JsUndefined]
  /\ pending' = [e \in Entries |-> FALSE]
  /\ assetList' = [e \in Entries |-> 1]
  /\ emitted' = [e \in Entries |-> {}]
  /\ asked' = [e \in Entries |-> {}]
  /\ UNCHANGED <<dirent, modules>>

\* lines 52-54: fs.stat answers; a rejection leaves the callback's promise rejected
Stat(e) ==
  /\ pc[e] = "stat"
  /\ pc' = [pc EXCEPT ![e] =
              IF dirent[e].kind = "enoent" THEN "rejected"
              ELSE IF dirent[e].kind # "dir" /\ e.ext = LiquidExt THEN "read"
              ELSE "skipped"]
  /\ UNCHANGED <<dirent, batch, phase, locals, heap, assets, errors, deps, modules,
                 preTransformCache, emitted, asked>>

\* lines 131-198: fs.readFile answers and replaceSchemaTags runs to its end
Read(e) ==
  /\ pc[e] = "read"
  /\ LET r == IF dirent[e].kind = "unreadable"
              THEN [thrown |-> TRUE, value |-> <<>>, deps |-> {},
                    cache |-> requireCache, asked |-> {}, hit |-> FALSE]
              ELSE replaceSchemaTags(e.base, dirent[e].content, requireCache)
     IN /\ pending' = [pending EXCEPT ![e] = r.thrown]
        /\ outputFile' = [outputFile EXCEPT ![e] = r.value]
        /\ fileDependencies' = fileDependencies \cup r.deps
        /\ requireCache' = r.cache
        /\ asked' = [asked EXCEPT ![e] = r.asked]
        /\ loadedIn' = [m \in AllModules |->
                          IF m \in r.cache \ requireCache THEN batch ELSE loadedIn[m]]
        /\ staleServed' = staleServed \cup
                            {m \in r.asked : r.hit /\ loadedIn[m] \notin {0, batch}}
  /\ pc' = [pc EXCEPT ![e] = "branch"]
  /\ UNCHANGED <<dirent, batch, phase, duplicateRules, assetList, heap, assets, errors,
                 contextDependencies, preTransformCache, emitted>>

\* the catch as it would be if it swallowed the error
CatchErrorSwallowed(errs, e) == errs

\* lines 92-96: the catch of the callback
CatchError(errs, e) == Append(errs, [file |-> e])

\* line 76 as it would be if a directive with a single target name were taken
\* for no directive
TakesDuplicateBranchIfSeveral(rules) == Truthy(rules) /\ Len(rules.of) > 1

\* line 76
TakesDuplicateBranch(rules) == Truthy(rules)

\* line 90: compilation.assets[outputKey] = outputFile
InsertNatural(hp, ref, e, content) ==
  [hp EXCEPT ![ref] = (getOutputKey(e) :> content) @@ @]

\* lines 66-91 after replaceSchemaTags has settled, up to the next await
Branch(e) ==
  /\ pc[e] = "branch"
  /\ LET rules == getDuplicateRules(outputFile[e]) IN
     IF pending[e] \/ rules.thrown
     THEN /\ errors' = CatchError(errors, e)
          /\ pc' = [pc EXCEPT ![e] = "done"]
          /\ UNCHANGED <<locals, heap, emitted>>
     ELSE IF TakesDuplicateBranch(rules.value)
     THEN /\ duplicateRules' = [duplicateRules EXCEPT ![e] = rules.value]
          /\ outputFile' = [outputFile EXCEPT ![e] = cleanDupicateTag(@)]
          /\ pc' = [pc EXCEPT ![e] = "expand"]
          /\ UNCHANGED <<pending, assetList, heap, errors, emitted>>
     ELSE /\ heap' = InsertNatural(heap, assets, e, outputFile[e])
          /\ emitted' = [emitted EXCEPT ![e] =
                           @ \cup {[key |-> getOutputKey(e), content |-> outputFile[e]]}]
          /\ duplicateRules' = [duplicateRules EXCEPT ![e] = rules.value]
          /\ pc' = [pc EXCEPT ![e] = "done"]
          /\ UNCHANGED <<outputFile, pending, assetList, errors>>
  /\ UNCHANGED <<dirent, batch, phase, assets, deps, modules, preTransformCache, asked>>

\* line 82, right-hand side: compilation.assets is read, duplicatedFiles runs
Expand(e) ==
  /\ pc[e] = "expand"
  /\ LET r == duplicatedFiles(heap, assets, duplicateRules[e], outputFile[e]) IN
       /\ heap' = r.heap
       /\ assetList' = [assetList EXCEPT ![e] = r.ret]
       /\ pending' = [pending EXCEPT ![e] = r.thrown]
       /\ emitted' = [emitted EXCEPT ![e] =
                        @ \cup {r.written[i] : i \in 1..Len(r.written)}]
  /\ pc' = [pc EXCEPT ![e] = "assign"]
  /\ UNCHANGED <<dirent, batch, phase, outputFile, duplicateRules, assets, errors, deps,
                 modules, preTransformCache, asked>>

\* line 82, the assignment after the await (or the catch when the call threw)
Assign(e) ==
  /\ pc[e] = "assign"
  /\ IF pending[e]
     THEN errors' = CatchError(errors, e) /\ UNCHANGED assets
     ELSE assets' = assetList[e] /\ UNCHANGED errors
  /\ pc' = [pc EXCEPT ![e] = "done"]
  /\ UNCHANGED <<dirent, batch, phase, locals, heap, deps, modules, preTransformCache,
                 emitted, asked>>

\* lines 100-102
NewlyLoaded(post, pre) == {m \in post : m \notin pre}

\* lines 99-108: the then-callback of Promise.all, run only when every callback
\* fulfilled
ThenCallback ==
  /\ phase = "running"
  /\ \A e \in Entries : pc[e] \in {"done", "skipped"}
  /\ LET new == NewlyLoaded(requireCache, preTransformCache) IN
       /\ contextDependencies' = contextDependencies \cup {PathDirname(m) : m \in new}
       /\ fileDependencies' = fileDependencies \cup new
       /\ requireCache' = requireCache \ new
  /\ phase' = "resolved"
  /\ UNCHANGED <<dirent, batch, pc, locals, heap, assets, errors, preTransformCache,
                 emitted, asked, loadedIn, staleServed>>

\* line 46: Promise.all rejects as soon as one callback rejects; the then-callback
\* is skipped and the other callbacks run on
RejectBatch ==
  /\ phase = "running"
  /\ \E e \in Entries : pc[e] = "rejected"
  /\ phase' = "rejected"
  /\ UNCHANGED <<dirent, batch, pc, locals, heap, assets, errors, deps, modules,
                 preTransformCache, emitted, asked>>

Next ==
  \/ buildSchema
  \/ \E e \in Entries : Stat(e)
  \/ \E e \in Entries : Read(e)
  \/ \E e \in Entries : Branch(e)
  \/ \E e \in Entries : Expand(e)
  \/ \E e \in Entries : Assign(e)
  \/ ThenCallback
  \/ RejectBatch

Spec == Init /\ [][Next]_vars

-----------------------------------------------------------------------------
(* Vocabulary of the properties                                            *)

\* compilation.assets, dereferenced
Assets == heap[assets]

\* the batch has ended (its promise settled) and no callback is still running
BatchOver == phase \in {"resolved", "rejected"} /\ AllSettled

\* a regular file with the template extension
Matching(e) == dirent[e].kind \in {"file", "unreadable"} /\ e.ext = LiquidExt

ErrorsFor(e) == {i \in 1..Len(errors) : errors[i].file = e}
KeysOf(ws) == {w.key : w \in ws}
NoDirective(s) == ~Has(s, "duplicate") /\ ~Has(s, "endduplicate")

\* a text with every occurrence of k replaced by r
ReplaceEvery(s, k, r) == [i \in 1..Len(s) |-> IF s[i].t = k THEN r ELSE s[i]]

\* the file's content after the resolver, when the resolver does not throw
Resolved(e) == replaceSchemaTags(e.base, dirent[e].content, {})

\* the rules getDuplicateRules finds in the resolved content
RulesOf(e) == getDuplicateRules(Resolved(e).value)

\* the resolver or the expander raises for this file
Raises(e) ==
  \/ dirent[e].kind = "unreadable"
  \/ Resolved(e).thrown
  \/ RulesOf(e).thrown
  \/ Truthy(RulesOf(e).value) /\ RulesOf(e).value.js # "array"

\* the (key, content) pairs a file that does not raise writes
OwnWrites(e) ==
  IF Truthy(RulesOf(e).value)
  THEN {[key |-> getOutputKeyByFileName(RulesOf(e).value.of[i], LiquidExt),
         content |-> VariantContent(cleanDupicateTag(Resolved(e).value),
                                    RulesOf(e).value.of[i])] :
          i \in 1..Len(RulesOf(e).value.of)}
  ELSE {[key |-> getOutputKey(e), content |-> Resolved(e).value]}

-----------------------------------------------------------------------------
(* C1: per-file isolation.  A file whose resolver or expander raises        *)
(* gets exactly one error entry carrying its path and inserts no asset;    *)
(* every other matching file of the batch is processed to its own assets   *)
(* or its own single error, in every interleaving, and no matching file is *)
(* left unprocessed when the batch is over.                                *)
C1_PerFileIsolation ==
  \A e \in Entries :
    /\ Cardinality(ErrorsFor(e)) <= 1
    /\ ~Matching(e) => ErrorsFor(e) = {} /\ emitted[e] = {}
    /\ (Matching(e) /\ batch > 0 /\ pc[e] = "done" /\ Raises(e)) =>
         Cardinality(ErrorsFor(e)) = 1 /\ emitted[e] = {}
    /\ (Matching(e) /\ batch > 0 /\ pc[e] = "done" /\ ~Raises(e)) =>
         ErrorsFor(e) = {} /\ emitted[e] = OwnWrites(e)
    /\ (Matching(e) /\ BatchOver) => pc[e] = "done"

C1_Witness ==
  \E e, f \in Entries :
    /\ e # f /\ Matching(e) /\ Matching(f)
    /\ BatchOver
    /\ Raises(e) /\ Cardinality(ErrorsFor(e)) = 1 /\ emitted[e] = {}
    /\ ~Raises(f) /\ emitted[f] # {}

-----------------------------------------------------------------------------
\* the pipeline of e went through the duplicate branch with a non-empty list of
\* target names and has performed its writes
ExpandedNonEmpty(e) ==
  /\ Matching(e) /\ batch > 0
  /\ pc[e] \in {"assign", "done"}
  /\ duplicateRules[e].js = "array"
  /\ duplicateRules[e].of # <<>>

TargetKeys(e) ==
  {getOutputKeyByFileName(duplicateRules[e].of[i], LiquidExt) :
     i \in 1..Len(duplicateRules[e].of)}

(* C2, as stated: a file with a non-empty list of target names gets one    *)
(* entry per target name under <targetName>.liquid, and its pipeline       *)
(* writes no entry under the file's own natural output key.                *)
C2_AsStated ==
  \A e \in Entries :
    ExpandedNonEmpty(e) =>
      /\ TargetKeys(e) \subseteq DOMAIN Assets
      /\ getOutputKey(e) \notin KeysOf(emitted[e])

(* C2, amended: a file with a non-empty list of target names gets one      *)
(* entry per target name under <targetName>.liquid, and its pipeline       *)
(* writes under these keys only: the natural key is written exactly when   *)
(* the file's own base name is one of the target names, and then with that *)
(* variant, never with the un-expanded content.                            *)
C2_OnlyVariantsWritten ==
  \A e \in Entries :
    ExpandedNonEmpty(e) =>
      /\ TargetKeys(e) \subseteq DOMAIN Assets
      /\ KeysOf(emitted[e]) = TargetKeys(e)
      /\ \A w \in emitted[e] :
           \E i \in 1..Len(duplicateRules[e].of) :
             /\ w.key = getOutputKeyByFileName(duplicateRules[e].of[i], LiquidExt)
             /\ w.content = VariantContent(outputFile[e], duplicateRules[e].of[i])

C2_Witness ==
  \E e \in Entries :
    /\ ExpandedNonEmpty(e) /\ pc[e] = "done"
    /\ Len(duplicateRules[e].of) = 2
    /\ getOutputKey(e) \in KeysOf(emitted[e])
    /\ Cardinality(KeysOf(emitted[e])) = 2

-----------------------------------------------------------------------------
\* the file has a schema directive whose module loads, and the effective schema
\* (the module's value, or its generator's return value) is not a mapping
EffectiveSchemaOf(e) ==
  LET match == SchemaMatch(dirent[e].content) IN
  EffectiveSchema(ModuleExports(PathResolve(match.lit)), e.base, InlineContents(match))

NonMappingSchema(e) ==
  /\ dirent[e].kind = "file" /\ e.ext = LiquidExt
  /\ SchemaMatch(dirent[e].content).found
  /\ ModuleExists(PathResolve(SchemaMatch(dirent[e].content).lit))
  /\ ~ModuleThrows(PathResolve(SchemaMatch(dirent[e].content).lit))
  /\ EffectiveSchemaOf(e).js # "mapping"

(* C3: a file whose effective schema is not a mapping (a number, an array, *)
(* null) yields exactly one error and no output asset.                     *)
C3_NonMappingRejected ==
  \A e \in Entries :
    (NonMappingSchema(e) /\ batch > 0 /\ pc[e] = "done") =>
      Cardinality(ErrorsFor(e)) = 1 /\ emitted[e] = {}

-----------------------------------------------------------------------------
(* C4: when a batch is over, however it ended, every module first loaded   *)
(* during it is a file dependency, its directory is a context dependency,  *)
(* and it is out of require.cache; no later batch is answered from         *)
(* require.cache with an instance an earlier batch loaded.                 *)
C4_LoadedModulesEvicted ==
  /\ BatchOver =>
       \A m \in AllModules :
         loadedIn[m] = batch =>
           /\ m \in fileDependencies
           /\ PathDirname(m) \in contextDependencies
           /\ m \notin requireCache
  /\ staleServed = {}

-----------------------------------------------------------------------------
(* C5: every variant written by duplicatedFiles is the template body with  *)
(* every occurrence of the placeholder replaced by the target name, and no *)
(* variant contains the placeholder.                                       *)
C5_EveryPlaceholderReplaced ==
  \A e \in Entries :
    (ExpandedNonEmpty(e) /\ ~pending[e]) =>
      /\ \A i \in 1..Len(duplicateRules[e].of) :
           [key |-> VariantKey(duplicateRules[e].of[i]),
            content |-> ReplaceEvery(outputFile[e], "placeholder",
                                     NameText(duplicateRules[e].of[i]))] \in emitted[e]
      /\ \A w \in emitted[e] : ~Has(w.content, "placeholder")

-----------------------------------------------------------------------------
\* the resolved content holds a duplicate directive whose body is the empty string
EmptyDirective(e) ==
  /\ dirent[e].kind = "file" /\ e.ext = LiquidExt
  /\ ~Resolved(e).thrown
  /\ DuplicateMatch(Resolved(e).value).found
  /\ DuplicateMatch(Resolved(e).value).body = <<>>

(* C6: a file whose duplicate directive has an empty body ends as the same *)
(* file without the directive would: one asset, under the natural key,     *)
(* whose content does not contain the directive text.                      *)
C6_EmptyDirectiveAsAbsent ==
  \A e \in Entries :
    (EmptyDirective(e) /\ batch > 0 /\ pc[e] = "done") =>
      /\ KeysOf(emitted[e]) = {getOutputKey(e)}
      /\ Cardinality(emitted[e]) = 1
      /\ \A w \in emitted[e] : NoDirective(w.content)

-----------------------------------------------------------------------------
\* getDuplicateRules matched a directive block and parsed its body
DirectiveParsed(e) ==
  /\ dirent[e].kind = "file" /\ e.ext = LiquidExt
  /\ ~Resolved(e).thrown
  /\ DuplicateMatch(Resolved(e).value).found
  /\ DuplicateMatch(Resolved(e).value).body # <<>>
  /\ ~RulesOf(e).thrown

(* C7: once getDuplicateRules has parsed a directive block out of a file,  *)
(* no asset emitted for the file contains the block, whatever follows the  *)
(* block (a blank line, a single newline, the end of the content).         *)
C7_ParsedDirectiveRemoved ==
  \A e \in Entries :
    (DirectiveParsed(e) /\ batch > 0) =>
      \A w \in emitted[e] : NoDirective(w.content)

-----------------------------------------------------------------------------
NoSchemaDirective(e) ==
  /\ dirent[e].kind = "file" /\ e.ext = LiquidExt
  /\ ~Has(dirent[e].content, "schema")

(* C8, as stated: for a file with no schema directive every content        *)
(* emitted for it is byte-identical to its input, and no module is loaded  *)
(* and no file dependency registered on its behalf.                        *)
C8_AsStated ==
  \A e \in Entries :
    (NoSchemaDirective(e) /\ batch > 0) =>
      /\ \A w \in emitted[e] : w.content = dirent[e].content
      /\ asked[e] = {}

(* C8, amended: for a file with no schema directive the resolver hands the *)
(* input on unchanged and no module is loaded and no file dependency       *)
(* registered on its behalf; when the content also yields no duplicate     *)
(* rules (getDuplicateRules returns a falsy value), the one asset emitted  *)
(* for the file, under its natural key, is byte-identical to the input.    *)
C8_PassThrough ==
  \A e \in Entries :
    (NoSchemaDirective(e) /\ batch > 0) =>
      /\ asked[e] = {}
      /\ pc[e] = "branch" => ~pending[e] /\ outputFile[e] = dirent[e].content
      /\ (pc[e] = "done" /\ ~getDuplicateRules(dirent[e].content).thrown
            /\ ~Truthy(getDuplicateRules(dirent[e].content).value)) =>
           emitted[e] = {[key |-> getOutputKey(e), content |-> dirent[e].content]}

C8_Witness ==
  \E e, f \in Entries :
    /\ e # f
    /\ NoSchemaDirective(e) /\ pc[e] = "done" /\ batch > 0
    /\ emitted[e] = {[key |-> getOutputKey(e), content |-> dirent[e].content]}
    /\ Has(dirent[e].content, "placeholder")
    /\ asked[f] # {} /\ requireCache # {}

-----------------------------------------------------------------------------
(* C9: no lost update on the shared asset map and error list.  In every    *)
(* interleaving, from the moment a pipeline is done every key it inserted  *)
(* (natural or variant) is a key of compilation.assets, up to and          *)
(* including the end of the batch, and every pipeline that raised has its  *)
(* error in compilation.errors.                                            *)
C9_NoLostUpdates ==
  /\ \A e \in Entries :
       pc[e] = "done" => KeysOf(emitted[e]) \subseteq DOMAIN Assets
  /\ \A e \in Entries :
       (Matching(e) /\ batch > 0 /\ pc[e] = "done" /\ Raises(e)) => ErrorsFor(e) # {}

\* one pipeline inserted its natural asset while another stood at the await of
\* line 82, between the call of duplicatedFiles and the assignment
C9_Witness ==
  \E e, f \in Entries :
    /\ e # f
    /\ pc[e] = "assign" /\ ~pending[e] /\ emitted[e] # {}
    /\ pc[f] = "done" /\ emitted[f] # {}
    /\ ~Truthy(duplicateRules[f])
    /\ KeysOf(emitted[e]) \cap KeysOf(emitted[f]) = {}
    /\ Len(errors) = 0

-----------------------------------------------------------------------------
(* C10: within a batch, the content stored under a key is the content of   *)
(* the first insertion: whatever a pipeline has inserted is still stored   *)
(* under its key, no other pipeline has overwritten it.                    *)
C10_NeverOverwritten ==
  \A e \in Entries :
    \A w \in emitted[e] :
      w.key \in DOMAIN Assets /\ Assets[w.key] = w.content

====
